---- MODULE Spec2Model ----
(***************************************************************************)
(* A model of the Graph class of src/src/graph/Graph.ts: the chart that    *)
(* owns an x range, a y range, an affine transform rebuilt on every range  *)
(* change, and two drawing surfaces (background for grid, axes and labels, *)
(* foreground for the plot).                                               *)
(*                                                                         *)
(* Numbers are the program's numbers with exact arithmetic: a number is a  *)
(* pair <<n, d>>, the fraction n/d in lowest terms with d > 0, or one of   *)
(* the three non-finite values <<1, 0>> (Infinity), <<-1, 0>> (-Infinity)  *)
(* and <<0, 0>> (NaN), which the divisions of updateTransform produce when *)
(* a range has max = min.  Rounding of binary floating point is not        *)
(* modelled.                                                               *)
(***************************************************************************)
EXTENDS Integers, Sequences, FiniteSets, TLC

VARIABLES size, xRange, yRange, transform, background, foreground, pc, call, nops

vars == <<size, xRange, yRange, transform, background, foreground, pc, call, nops>>

----------------------------------------------------------------------------
(* Bounds of the model *)

\* the number of operations a caller invokes on the constructed chart
MaxOps == 3

\* the longest point sequence handed to plot
MaxPoints == 3

----------------------------------------------------------------------------
(* Program constants *)

OFFSET == 30

PLOT_LINE_COLOR == "#308c2c"

GRID_LINE_COLOR == "#88abcf"

AXIS_LINE_COLOR == "#ff0000"

DEFAULT_LINE_STYLE == [strokeStyle |-> "#000000", lineWidth |-> 1]

DEFAULT_TEXT_STYLE == [font |-> "10pt Arial", fillStyle |-> "#000000", textAlign |-> "right"]

----------------------------------------------------------------------------
(* Numbers *)

Abs(n) == IF n < 0 THEN -n ELSE n

Sign(n) == IF n < 0 THEN -1 ELSE IF n > 0 THEN 1 ELSE 0

RECURSIVE GCD(_, _)
GCD(a, b) == IF b = 0 THEN a ELSE GCD(b, a % b)

\* the fraction n/d, d # 0, in lowest terms with a positive denominator
Norm(n, d) ==
    LET g == GCD(Abs(n), Abs(d))
    IN  <<(Sign(d) * n) \div g, Abs(d) \div g>>

Q(n) == <<n, 1>>

NaN == <<0, 0>>

IsFinite(a) == a[2] # 0

Neg(a) == <<-a[1], a[2]>>

\* a * b; Infinity * 0 and anything * NaN are NaN
Mul(a, b) ==
    IF IsFinite(a) /\ IsFinite(b)
    THEN Norm(a[1] * b[1], a[2] * b[2])
    ELSE <<Sign(a[1]) * Sign(b[1]), 0>>

\* a + b; Infinity + -Infinity and anything + NaN are NaN
Add(a, b) ==
    IF IsFinite(a) /\ IsFinite(b)
    THEN Norm(a[1] * b[2] + b[1] * a[2], a[2] * b[2])
    ELSE IF ~IsFinite(a) /\ ~IsFinite(b)
         THEN (IF a = b THEN a ELSE NaN)
         ELSE IF IsFinite(a) THEN b ELSE a

\* a / b for finite a and b; x / 0 is +-Infinity, 0 / 0 is NaN
Div(a, b) ==
    IF b[1] = 0
    THEN <<Sign(a[1]), 0>>
    ELSE Norm(a[1] * b[2], a[2] * b[1])

----------------------------------------------------------------------------
(* geometry.transform.Transform: the matrix                                *)
(*     | a c e |                                                           *)
(*     | b d f |                                                           *)
(* Each operation post-multiplies the current matrix.                      *)

Identity == [a |-> Q(1), b |-> Q(0), c |-> Q(0), d |-> Q(1), e |-> Q(0), f |-> Q(0)]

identity(m) == Identity

scale(m, sx, sy) ==
    [m EXCEPT !.a = Mul(m.a, sx), !.b = Mul(m.b, sx),
              !.c = Mul(m.c, sy), !.d = Mul(m.d, sy)]

translate(m, tx, ty) ==
    [m EXCEPT !.e = Add(m.e, Add(Mul(m.a, tx), Mul(m.c, ty))),
              !.f = Add(m.f, Add(Mul(m.b, tx), Mul(m.d, ty)))]

\* p is a logical point with integer coordinates; the result is a pixel point
transformPoint(m, p) ==
    [x |-> Add(Add(Mul(m.a, Q(p.x)), Mul(m.c, Q(p.y))), m.e),
     y |-> Add(Add(Mul(m.b, Q(p.x)), Mul(m.d, Q(p.y))), m.f)]

----------------------------------------------------------------------------
(* number.range.inRange and array.iterator.range *)

inRange(value, range) == range.min <= value /\ value <= range.max

RECURSIVE range(_, _, _)
range(min, max, step) ==
    IF min > max THEN <<>> ELSE <<min>> \o range(min + step, max, step)

----------------------------------------------------------------------------
(* Graph.updateTransform *)

\* updateTransform with the last translate by (xRange.min, yRange.min), the
\* signs forgotten
updateTransform_wrongSign(m, sz, xr, yr) ==
    LET m1 == identity(m)
        m2 == scale(m1, Q(1), Q(-1))
        m3 == translate(m2, Q(0), Neg(Q(sz.height)))
        m4 == translate(m3, Q(OFFSET), Q(OFFSET))
        m5 == scale(m4,
                    Div(Q(sz.width - OFFSET * 2), Q(xr.max - xr.min)),
                    Div(Q(sz.height - OFFSET * 2), Q(yr.max - yr.min)))
    IN  translate(m5, Q(xr.min), Q(yr.min))

\* updateTransform without the call of identity: the matrix is updated, not
\* rebuilt
updateTransform_noIdentity(m, sz, xr, yr) ==
    LET m2 == scale(m, Q(1), Q(-1))
        m3 == translate(m2, Q(0), Neg(Q(sz.height)))
        m4 == translate(m3, Q(OFFSET), Q(OFFSET))
        m5 == scale(m4,
                    Div(Q(sz.width - OFFSET * 2), Q(xr.max - xr.min)),
                    Div(Q(sz.height - OFFSET * 2), Q(yr.max - yr.min)))
    IN  translate(m5, Neg(Q(xr.min)), Neg(Q(yr.min)))

updateTransform(m, sz, xr, yr) ==
    LET m1 == identity(m)
        m2 == scale(m1, Q(1), Q(-1))
        m3 == translate(m2, Q(0), Neg(Q(sz.height)))
        m4 == translate(m3, Q(OFFSET), Q(OFFSET))
        m5 == scale(m4,
                    Div(Q(sz.width - OFFSET * 2), Q(xr.max - xr.min)),
                    Div(Q(sz.height - OFFSET * 2), Q(yr.max - yr.min)))
    IN  translate(m5, Neg(Q(xr.min)), Neg(Q(yr.min)))

----------------------------------------------------------------------------
(* The line and text primitives and the surfaces *)

\* { ...base, ...over }
Spread(base, over) ==
    [k \in (DOMAIN base) \cup (DOMAIN over) |->
        IF k \in DOMAIN over THEN over[k] ELSE base[k]]

\* line(start, end, style, context): one stroked segment more on the surface
line(start, end, style, context) ==
    Append(context, [kind |-> "line", start |-> start, end |-> end, style |-> style])

\* text(str, position, style, context): one label more on the surface
text(str, position, style, context) ==
    Append(context, [kind |-> "text", str |-> str, position |-> position, style |-> style])

\* Canvas.clear
clear(context) == <<>>

----------------------------------------------------------------------------
(* Inputs *)

Sizes == {[width |-> 600, height |-> 600], [width |-> 100, height |-> 160]}

Ranges ==
    {[min |-> -50, max |-> 50], [min |-> 10, max |-> 50], [min |-> -50, max |-> -10],
     [min |-> 5, max |-> 5], [min |-> 50, max |-> 10]}

\* the steps of drawGrid
Steps == {50, 100}

\* the steps of drawXLabels and of drawYLabels: those of the README
XLabelSteps == {100}

YLabelSteps == {50}

\* the points of the README's plot, over and over
Pool == <<[x |-> 0, y |-> 0], [x |-> 120, y |-> 30], [x |-> 320, y |-> 300]>>

PoolAt(i) == Pool[((i - 1) % Len(Pool)) + 1]

\* the point sequences handed to plot: the runs of at most MaxPoints points
PointSeqs ==
    {[i \in 1..n |-> PoolAt(s + i - 1)] : s \in 1..Len(Pool), n \in 0..MaxPoints}

\* the style overrides a caller passes: none
Overrides == {<<>>}

----------------------------------------------------------------------------
(* The chart.  call is the last call made on the chart: the operation, its *)
(* arguments and what the call returned ("this", the chart itself, or       *)
(* "undefined" for a property setter, whose body returns nothing).          *)

Init ==
    /\ size \in Sizes
    /\ xRange = [min |-> 0, max |-> 0]
    /\ yRange = [min |-> 0, max |-> 0]
    /\ transform = Identity
    /\ background = <<>>
    /\ foreground = <<>>
    /\ pc = "ctor_xRange"
    /\ call = [op |-> "constructor", args |-> <<size>>, ret |-> "this"]
    /\ nops = 0

\* set xRange(range)
set_xRange(r) ==
    /\ xRange' = r
    /\ transform' = updateTransform(transform, size, r, yRange)

\* set yRange without the call of updateTransform
set_yRange_stale(r) ==
    /\ yRange' = r
    /\ transform' = transform

\* set yRange(range)
set_yRange(r) ==
    /\ yRange' = r
    /\ transform' = updateTransform(transform, size, xRange, r)

\* constructor, the assignment this.xRange = {min: 0, max: size.width}
constructor_xRange ==
    /\ pc = "ctor_xRange"
    /\ set_xRange([min |-> 0, max |-> size.width])
    /\ pc' = "ctor_yRange"
    /\ UNCHANGED <<size, yRange, background, foreground, call, nops>>

\* the constructor assigning the field _yRange, not the property yRange
constructor_yRange_field ==
    /\ pc = "ctor_yRange"
    /\ yRange' = [min |-> 0, max |-> size.height]
    /\ pc' = "ready"
    /\ UNCHANGED <<size, xRange, transform, background, foreground, call, nops>>

\* constructor, the assignment this.yRange = {min: 0, max: size.height}
constructor_yRange ==
    /\ pc = "ctor_yRange"
    /\ set_yRange([min |-> 0, max |-> size.height])
    /\ pc' = "ready"
    /\ UNCHANGED <<size, xRange, background, foreground, call, nops>>

\* a caller can invoke an operation on the constructed chart
Callable == pc = "ready" /\ nops < MaxOps

\* graph.xRange = r
xRange_set(r) ==
    /\ Callable
    /\ set_xRange(r)
    /\ call' = [op |-> "xRange", args |-> <<r>>, ret |-> "undefined"]
    /\ nops' = nops + 1
    /\ UNCHANGED <<size, yRange, background, foreground, pc>>

\* graph.yRange = r
yRange_set(r) ==
    /\ Callable
    /\ set_yRange(r)
    /\ call' = [op |-> "yRange", args |-> <<r>>, ret |-> "undefined"]
    /\ nops' = nops + 1
    /\ UNCHANGED <<size, xRange, background, foreground, pc>>

\* the loop of plot drawing each segment from the point to the previous one
RECURSIVE plotLoop_swapped(_, _, _, _, _, _)
plotLoop_swapped(points, i, previous, styling, m, context) ==
    IF i > Len(points)
    THEN context
    ELSE plotLoop_swapped(points, i + 1, <<points[i]>>, styling, m,
                  IF previous # <<>>
                  THEN line(transformPoint(m, points[i]), transformPoint(m, previous[1]),
                            styling, context)
                  ELSE context)

\* the loop of plot from the i-th point on; previous is <<>> (undefined) or <<point>>
RECURSIVE plotLoop(_, _, _, _, _, _)
plotLoop(points, i, previous, styling, m, context) ==
    IF i > Len(points)
    THEN context
    ELSE plotLoop(points, i + 1, <<points[i]>>, styling, m,
                  IF previous # <<>>
                  THEN line(transformPoint(m, previous[1]), transformPoint(m, points[i]),
                            styling, context)
                  ELSE context)

\* plot without the call of clear
plot_noClear(points, lineStyle) ==
    /\ Callable
    /\ LET styling == Spread(Spread(DEFAULT_LINE_STYLE, [strokeStyle |-> PLOT_LINE_COLOR]),
                             lineStyle)
       IN  foreground' = plotLoop(points, 1, <<>>, styling, transform, foreground)
    /\ call' = [op |-> "plot", args |-> <<points, lineStyle>>, ret |-> "this"]
    /\ nops' = nops + 1
    /\ UNCHANGED <<size, xRange, yRange, transform, background, pc>>

plot(points, lineStyle) ==
    /\ Callable
    /\ LET styling == Spread(Spread(DEFAULT_LINE_STYLE, [strokeStyle |-> PLOT_LINE_COLOR]),
                             lineStyle)
       IN  foreground' = plotLoop(points, 1, <<>>, styling, transform, clear(foreground))
    /\ call' = [op |-> "plot", args |-> <<points, lineStyle>>, ret |-> "this"]
    /\ nops' = nops + 1
    /\ UNCHANGED <<size, xRange, yRange, transform, background, pc>>

\* String(n) of an integer n: its decimal form, "-" first when negative
String(n) == ToString(n)

\* the loop of drawXLabels from the i-th tick on
RECURSIVE drawXLabelsLoop(_, _, _, _, _, _)
drawXLabelsLoop(ticks, i, y, styling, m, context) ==
    IF i > Len(ticks)
    THEN context
    ELSE LET position == transformPoint(m, [x |-> ticks[i], y |-> y])
         IN  drawXLabelsLoop(ticks, i + 1, y, styling, m,
                 text(String(ticks[i]),
                      [x |-> position.x, y |-> Add(position.y, Q(15))],
                      styling, context))

drawXLabels(step, textStyle) ==
    /\ Callable
    /\ LET styling == Spread(Spread(DEFAULT_TEXT_STYLE, [textAlign |-> "center"]), textStyle)
           y == IF inRange(0, yRange) THEN 0 ELSE yRange.min
       IN  background' = drawXLabelsLoop(range(xRange.min, xRange.max, step), 1, y,
                                         styling, transform, background)
    /\ call' = [op |-> "drawXLabels", args |-> <<step, textStyle>>, ret |-> "this"]
    /\ nops' = nops + 1
    /\ UNCHANGED <<size, xRange, yRange, transform, foreground, pc>>

\* the loop of drawYLabels from the i-th tick on
RECURSIVE drawYLabelsLoop(_, _, _, _, _, _)
drawYLabelsLoop(ticks, i, x, styling, m, context) ==
    IF i > Len(ticks)
    THEN context
    ELSE LET point == transformPoint(m, [x |-> x, y |-> ticks[i]])
         IN  drawYLabelsLoop(ticks, i + 1, x, styling, m,
                 text(String(ticks[i]),
                      [x |-> Add(point.x, Q(-5)), y |-> Add(point.y, Q(5))],
                      styling, context))

\* drawYLabels without its return statement
drawYLabels_noReturn(step, textStyle) ==
    /\ Callable
    /\ LET styling == Spread(DEFAULT_TEXT_STYLE, textStyle)
           x == IF inRange(0, xRange) THEN 0 ELSE xRange.min
       IN  background' = drawYLabelsLoop(range(yRange.min, yRange.max, step), 1, x,
                                         styling, transform, background)
    /\ call' = [op |-> "drawYLabels", args |-> <<step, textStyle>>, ret |-> "undefined"]
    /\ nops' = nops + 1
    /\ UNCHANGED <<size, xRange, yRange, transform, foreground, pc>>

drawYLabels(step, textStyle) ==
    /\ Callable
    /\ LET styling == Spread(DEFAULT_TEXT_STYLE, textStyle)
           x == IF inRange(0, xRange) THEN 0 ELSE xRange.min
       IN  background' = drawYLabelsLoop(range(yRange.min, yRange.max, step), 1, x,
                                         styling, transform, background)
    /\ call' = [op |-> "drawYLabels", args |-> <<step, textStyle>>, ret |-> "this"]
    /\ nops' = nops + 1
    /\ UNCHANGED <<size, xRange, yRange, transform, foreground, pc>>

\* the first loop of drawGrid stopping one tick early
RECURSIVE drawGridXLoop_skipLast(_, _, _, _, _, _)
drawGridXLoop_skipLast(ticks, i, yr, styling, m, context) ==
    IF i >= Len(ticks)
    THEN context
    ELSE drawGridXLoop_skipLast(ticks, i + 1, yr, styling, m,
             line(transformPoint(m, [x |-> ticks[i], y |-> yr.min]),
                  transformPoint(m, [x |-> ticks[i], y |-> yr.max]),
                  styling, context))

\* the first loop of drawGrid, the vertical lines, from the i-th tick on
RECURSIVE drawGridXLoop(_, _, _, _, _, _)
drawGridXLoop(ticks, i, yr, styling, m, context) ==
    IF i > Len(ticks)
    THEN context
    ELSE drawGridXLoop(ticks, i + 1, yr, styling, m,
             line(transformPoint(m, [x |-> ticks[i], y |-> yr.min]),
                  transformPoint(m, [x |-> ticks[i], y |-> yr.max]),
                  styling, context))

\* the second loop of drawGrid, the horizontal lines, from the i-th tick on
RECURSIVE drawGridYLoop(_, _, _, _, _, _)
drawGridYLoop(ticks, i, xr, styling, m, context) ==
    IF i > Len(ticks)
    THEN context
    ELSE drawGridYLoop(ticks, i + 1, xr, styling, m,
             line(transformPoint(m, [x |-> xr.min, y |-> ticks[i]]),
                  transformPoint(m, [x |-> xr.max, y |-> ticks[i]]),
                  styling, context))

drawGrid(xStep, yStep, lineStyle) ==
    /\ Callable
    /\ LET styling == Spread(Spread(DEFAULT_LINE_STYLE, [strokeStyle |-> GRID_LINE_COLOR]),
                             lineStyle)
           vertical == drawGridXLoop(range(xRange.min, xRange.max, xStep), 1, yRange,
                                     styling, transform, background)
       IN  background' = drawGridYLoop(range(yRange.min, yRange.max, yStep), 1, xRange,
                                       styling, transform, vertical)
    /\ call' = [op |-> "drawGrid", args |-> <<xStep, yStep, lineStyle>>, ret |-> "this"]
    /\ nops' = nops + 1
    /\ UNCHANGED <<size, xRange, yRange, transform, foreground, pc>>

\* drawXAxis with the line at y = 0 whatever yRange is
drawXAxis_atZero(lineStyle) ==
    /\ Callable
    /\ LET styling == Spread(Spread(DEFAULT_LINE_STYLE,
                                    [strokeStyle |-> AXIS_LINE_COLOR, lineWidth |-> 2]),
                             lineStyle)
           y == 0
       IN  background' = line(transformPoint(transform, [x |-> xRange.min, y |-> y]),
                              transformPoint(transform, [x |-> xRange.max, y |-> y]),
                              styling, background)
    /\ call' = [op |-> "drawXAxis", args |-> <<lineStyle>>, ret |-> "this"]
    /\ nops' = nops + 1
    /\ UNCHANGED <<size, xRange, yRange, transform, foreground, pc>>

drawXAxis(lineStyle) ==
    /\ Callable
    /\ LET styling == Spread(Spread(DEFAULT_LINE_STYLE,
                                    [strokeStyle |-> AXIS_LINE_COLOR, lineWidth |-> 2]),
                             lineStyle)
           y == IF inRange(0, yRange) THEN 0 ELSE yRange.min
       IN  background' = line(transformPoint(transform, [x |-> xRange.min, y |-> y]),
                              transformPoint(transform, [x |-> xRange.max, y |-> y]),
                              styling, background)
    /\ call' = [op |-> "drawXAxis", args |-> <<lineStyle>>, ret |-> "this"]
    /\ nops' = nops + 1
    /\ UNCHANGED <<size, xRange, yRange, transform, foreground, pc>>

\* drawYAxis drawing onto the foreground
drawYAxis_onForeground(lineStyle) ==
    /\ Callable
    /\ LET styling == Spread(Spread(DEFAULT_LINE_STYLE,
                                    [strokeStyle |-> AXIS_LINE_COLOR, lineWidth |-> 2]),
                             lineStyle)
           x == IF inRange(0, xRange) THEN 0 ELSE xRange.min
       IN  foreground' = line(transformPoint(transform, [x |-> x, y |-> yRange.min]),
                              transformPoint(transform, [x |-> x, y |-> yRange.max]),
                              styling, foreground)
    /\ call' = [op |-> "drawYAxis", args |-> <<lineStyle>>, ret |-> "this"]
    /\ nops' = nops + 1
    /\ UNCHANGED <<size, xRange, yRange, transform, background, pc>>

drawYAxis(lineStyle) ==
    /\ Callable
    /\ LET styling == Spread(Spread(DEFAULT_LINE_STYLE,
                                    [strokeStyle |-> AXIS_LINE_COLOR, lineWidth |-> 2]),
                             lineStyle)
           x == IF inRange(0, xRange) THEN 0 ELSE xRange.min
       IN  background' = line(transformPoint(transform, [x |-> x, y |-> yRange.min]),
                              transformPoint(transform, [x |-> x, y |-> yRange.max]),
                              styling, background)
    /\ call' = [op |-> "drawYAxis", args |-> <<lineStyle>>, ret |-> "this"]
    /\ nops' = nops + 1
    /\ UNCHANGED <<size, xRange, yRange, transform, foreground, pc>>

Next ==
    \/ constructor_xRange
    \/ constructor_yRange
    \/ \E r \in Ranges : xRange_set(r)
    \/ \E r \in Ranges : yRange_set(r)
    \/ \E points \in PointSeqs, lineStyle \in Overrides : plot(points, lineStyle)
    \/ \E step \in XLabelSteps, textStyle \in Overrides : drawXLabels(step, textStyle)
    \/ \E step \in YLabelSteps, textStyle \in Overrides : drawYLabels(step, textStyle)
    \/ \E xStep \in Steps, yStep \in Steps, lineStyle \in Overrides :
          drawGrid(xStep, yStep, lineStyle)
    \/ \E lineStyle \in Overrides : drawXAxis(lineStyle)
    \/ \E lineStyle \in Overrides : drawYAxis(lineStyle)

Spec == Init /\ [][Next]_vars

----------------------------------------------------------------------------
(* What the claims speak of *)

W == size.width

H == size.height

NonDegenerate == xRange.max # xRange.min /\ yRange.max # yRange.min

\* the pixel of a logical x or y under the current size and ranges, in closed
\* form: OFFSET + (x - min) * (W - 2 OFFSET) / (max - min), and the same
\* measured up from the bottom margin for y
PixelX(x) ==
    Norm(OFFSET * (xRange.max - xRange.min) + (x - xRange.min) * (W - 2 * OFFSET),
         xRange.max - xRange.min)

PixelY(y) ==
    Norm((H - OFFSET) * (yRange.max - yRange.min) - (y - yRange.min) * (H - 2 * OFFSET),
         yRange.max - yRange.min)

Pixel(p) == [x |-> PixelX(p.x), y |-> PixelY(p.y)]

\* the matrix of the current size and ranges alone
TransformOf(sz, xr, yr) ==
    LET sx == Div(Q(sz.width - 2 * OFFSET), Q(xr.max - xr.min))
        sy == Div(Q(sz.height - 2 * OFFSET), Q(yr.max - yr.min))
        b  == Mul(Q(0), sx)
        c  == Mul(Q(0), sy)
        d  == Mul(Q(-1), sy)
    IN  [a |-> sx, b |-> b, c |-> c, d |-> d,
         e |-> Add(Q(OFFSET), Add(Mul(sx, Q(-xr.min)), Mul(c, Q(-yr.min)))),
         f |-> Add(Q(sz.height - OFFSET), Add(Mul(b, Q(-xr.min)), Mul(d, Q(-yr.min))))]

FiniteMatrix(m) ==
    /\ IsFinite(m.a) /\ IsFinite(m.b) /\ IsFinite(m.c)
    /\ IsFinite(m.d) /\ IsFinite(m.e) /\ IsFinite(m.f)

\* where the x axis and the y axis cross the other axis
AxisY == IF yRange.min > 0 \/ yRange.max < 0 THEN yRange.min ELSE 0

AxisX == IF xRange.min > 0 \/ xRange.max < 0 THEN xRange.min ELSE 0

\* the values min, min + step, ... that are <= max
TickCount(min, max, step) == IF max < min THEN 0 ELSE ((max - min) \div step) + 1

Ticks(min, max, step) == [k \in 1..TickCount(min, max, step) |-> min + (k - 1) * step]

\* the last n elements of s, and the elements of t after its first Len(s)
Suffix(s, n) == SubSeq(s, Len(s) - n + 1, Len(s))

Added(s, t) == SubSeq(t, Len(s) + 1, Len(t))

IsPrefix(s, t) == Len(s) <= Len(t) /\ SubSeq(t, 1, Len(s)) = s

BackgroundOps == {"drawGrid", "drawXAxis", "drawYAxis", "drawXLabels", "drawYLabels"}

DrawOps == BackgroundOps \cup {"plot"}

DefaultRanges ==
    /\ xRange = [min |-> 0, max |-> W]
    /\ yRange = [min |-> 0, max |-> H]

----------------------------------------------------------------------------
\* C1: on the constructed chart, whenever both ranges have max # min,
\* transformPoint maps (xRange.min, yRange.min) to the pixel (OFFSET, H - OFFSET)
\* and (xRange.max, yRange.max) to (W - OFFSET, OFFSET); the pixel x of
\* xRange.min and xRange.max does not depend on y, nor the pixel y of yRange.min
\* and yRange.max on x; with the default ranges, (0, 0) goes to
\* (OFFSET, H - OFFSET) and (W, H) to (W - OFFSET, OFFSET).
C1_Corners ==
    (pc = "ready" /\ NonDegenerate) =>
        /\ transformPoint(transform, [x |-> xRange.min, y |-> yRange.min])
              = [x |-> Q(OFFSET), y |-> Q(H - OFFSET)]
        /\ transformPoint(transform, [x |-> xRange.max, y |-> yRange.max])
              = [x |-> Q(W - OFFSET), y |-> Q(OFFSET)]
        /\ \A v \in {-7, 13} :
              /\ transformPoint(transform, [x |-> xRange.min, y |-> v]).x = Q(OFFSET)
              /\ transformPoint(transform, [x |-> xRange.max, y |-> v]).x = Q(W - OFFSET)
        /\ \A v \in {-7, 13} :
              /\ transformPoint(transform, [x |-> v, y |-> yRange.min]).y = Q(H - OFFSET)
              /\ transformPoint(transform, [x |-> v, y |-> yRange.max]).y = Q(OFFSET)
        /\ DefaultRanges =>
              /\ transformPoint(transform, [x |-> 0, y |-> 0]) = [x |-> <<30, 1>>, y |-> <<H - 30, 1>>]
              /\ transformPoint(transform, [x |-> W, y |-> H]) = [x |-> <<W - 30, 1>>, y |-> <<30, 1>>]

\* a chart whose caller has set a negative x range and an inverted y range
C1_Witness ==
    /\ pc = "ready"
    /\ xRange = [min |-> -50, max |-> -10]
    /\ yRange = [min |-> 50, max |-> 10]
    /\ transformPoint(transform, [x |-> -50, y |-> 50]) = [x |-> Q(30), y |-> Q(H - 30)]

----------------------------------------------------------------------------
\* C2: after any sequence of range sets and draw calls, what the last draw call
\* painted lies at the pixels that the ranges set last give (the closed form
\* Pixel of the current xRange and yRange), for each of plot, drawXAxis,
\* drawYAxis, drawGrid, drawXLabels and drawYLabels; stated for ranges with
\* max # min, where the pixels are finite.
C2_DrawsUseLatestRanges ==
    (pc = "ready" /\ NonDegenerate) =>
        /\ call.op = "plot" =>
              LET pts == call.args[1]
              IN  /\ Len(foreground) = IF Len(pts) > 0 THEN Len(pts) - 1 ELSE 0
                  /\ \A i \in 1..Len(foreground) :
                        /\ foreground[i].start = Pixel(pts[i])
                        /\ foreground[i].end = Pixel(pts[i + 1])
        /\ call.op = "drawXAxis" =>
              /\ background # <<>>
              /\ background[Len(background)].start = Pixel([x |-> xRange.min, y |-> AxisY])
              /\ background[Len(background)].end = Pixel([x |-> xRange.max, y |-> AxisY])
        /\ call.op = "drawYAxis" =>
              /\ background # <<>>
              /\ background[Len(background)].start = Pixel([x |-> AxisX, y |-> yRange.min])
              /\ background[Len(background)].end = Pixel([x |-> AxisX, y |-> yRange.max])
        /\ call.op = "drawGrid" =>
              LET xs == Ticks(xRange.min, xRange.max, call.args[1])
                  ys == Ticks(yRange.min, yRange.max, call.args[2])
                  new == Suffix(background, Len(xs) + Len(ys))
              IN  /\ Len(background) >= Len(xs) + Len(ys)
                  /\ \A k \in 1..Len(xs) :
                        /\ new[k].start = Pixel([x |-> xs[k], y |-> yRange.min])
                        /\ new[k].end = Pixel([x |-> xs[k], y |-> yRange.max])
                  /\ \A k \in 1..Len(ys) :
                        /\ new[Len(xs) + k].start = Pixel([x |-> xRange.min, y |-> ys[k]])
                        /\ new[Len(xs) + k].end = Pixel([x |-> xRange.max, y |-> ys[k]])
        /\ call.op = "drawXLabels" =>
              LET xs == Ticks(xRange.min, xRange.max, call.args[1])
                  new == Suffix(background, Len(xs))
              IN  /\ Len(background) >= Len(xs)
                  /\ \A k \in 1..Len(xs) :
                        new[k].position = [x |-> PixelX(xs[k]), y |-> Add(PixelY(AxisY), Q(15))]
        /\ call.op = "drawYLabels" =>
              LET ys == Ticks(yRange.min, yRange.max, call.args[1])
                  new == Suffix(background, Len(ys))
              IN  /\ Len(background) >= Len(ys)
                  /\ \A k \in 1..Len(ys) :
                        new[k].position = [x |-> Add(PixelX(AxisX), Q(-5)), y |-> Add(PixelY(ys[k]), Q(5))]

\* a grid drawn after the caller has set both ranges
C2_Witness ==
    /\ call.op = "drawGrid"
    /\ nops = 3
    /\ xRange = [min |-> 10, max |-> 50]
    /\ yRange = [min |-> -50, max |-> 50]
    /\ Len(background) = 4

----------------------------------------------------------------------------
\* C3: after plot of a sequence of N points the foreground holds max(N - 1, 0)
\* segments, the i-th a line from transformPoint(points[i]) to
\* transformPoint(points[i + 1]); for the README's chart (600 x 600, default
\* ranges, its three points) these are the two segments
\* (30, 570)-(138, 543) and (138, 543)-(318, 300).
C3_PlotSegments ==
    call.op = "plot" =>
        LET pts == call.args[1]
            n == Len(pts)
        IN  /\ Len(foreground) = IF n >= 1 THEN n - 1 ELSE 0
            /\ n <= 1 => foreground = <<>>
            /\ \A i \in 1..Len(foreground) :
                  /\ foreground[i].kind = "line"
                  /\ foreground[i].start = transformPoint(transform, pts[i])
                  /\ foreground[i].end = transformPoint(transform, pts[i + 1])
            /\ (W = 600 /\ H = 600 /\ DefaultRanges /\ pts = Pool) =>
                  /\ Len(foreground) = 2
                  /\ foreground[1].start = [x |-> <<30, 1>>, y |-> <<570, 1>>]
                  /\ foreground[1].end = [x |-> <<138, 1>>, y |-> <<543, 1>>]
                  /\ foreground[2].start = [x |-> <<138, 1>>, y |-> <<543, 1>>]
                  /\ foreground[2].end = [x |-> <<318, 1>>, y |-> <<300, 1>>]

\* the README's plot on the README's chart
C3_Witness ==
    /\ call.op = "plot"
    /\ call.args[1] = Pool
    /\ W = 600 /\ H = 600 /\ DefaultRanges
    /\ Len(foreground) = 2

----------------------------------------------------------------------------
\* the segments plot paints for a point sequence under a matrix
PlotOf(pts, m) ==
    [i \in 1..(Len(pts) - 1) |->
        [kind |-> "line",
         start |-> transformPoint(m, pts[i]),
         end |-> transformPoint(m, pts[i + 1]),
         style |-> [strokeStyle |-> "#308c2c", lineWidth |-> 1]]]

\* C4: the foreground is empty until the first plot; a plot call leaves on it
\* exactly the segments of that call, nothing of what was there before; no
\* other operation changes it.
C4_ForegroundIsLastPlot ==
    /\ foreground = <<>>
    /\ [][IF call'.op = "plot"
          THEN foreground' = PlotOf(call'.args[1], transform')
          ELSE foreground' = foreground]_vars

\* a plot of one point, which leaves the foreground empty, as the third call
C4_Witness ==
    /\ call.op = "plot"
    /\ nops = 3
    /\ Len(call.args[1]) = 1
    /\ foreground = <<>>
    /\ background = <<>>

----------------------------------------------------------------------------
\* C5: drawGrid, drawXAxis, drawYAxis, drawXLabels and drawYLabels only add to
\* the background and leave the foreground as it was; plot leaves the
\* background as it was; none of the six changes xRange, yRange or the
\* transform.
C5_SurfacesSeparate ==
    [][/\ call'.op \in BackgroundOps =>
             /\ foreground' = foreground
             /\ IsPrefix(background, background')
       /\ call'.op = "plot" => background' = background
       /\ call'.op \in DrawOps =>
             /\ xRange' = xRange
             /\ yRange' = yRange
             /\ transform' = transform]_vars

\* an axis drawn onto a background that holds something, with a plot on the
\* foreground
C5_Witness ==
    /\ call.op = "drawXAxis"
    /\ Len(foreground) = 2
    /\ Len(background) > 1

----------------------------------------------------------------------------
\* the line a step has added to the background, if it has added exactly one
AddedOneLine(from, to) ==
    /\ Len(background') = Len(background) + 1
    /\ IsPrefix(background, background')
    /\ background'[Len(background')].kind = "line"
    /\ background'[Len(background')].start = transformPoint(transform, from)
    /\ background'[Len(background')].end = transformPoint(transform, to)

\* C6: drawXAxis draws exactly one line, from (xRange.min, y) to (xRange.max, y)
\* with y = 0 unless yRange.min > 0 or yRange.max < 0, and then y = yRange.min;
\* drawYAxis draws exactly one line, from (x, yRange.min) to (x, yRange.max)
\* with x = 0 unless xRange.min > 0 or xRange.max < 0, and then x = xRange.min.
\* With yRange = [-50, 50] the x axis is at y = 0, with [10, 50] at y = 10.
C6_AxisLines ==
    [][/\ call'.op = "drawXAxis" =>
             /\ AddedOneLine([x |-> xRange.min, y |-> AxisY], [x |-> xRange.max, y |-> AxisY])
             /\ yRange = [min |-> -50, max |-> 50] =>
                   AddedOneLine([x |-> xRange.min, y |-> 0], [x |-> xRange.max, y |-> 0])
             /\ yRange = [min |-> 10, max |-> 50] =>
                   AddedOneLine([x |-> xRange.min, y |-> 10], [x |-> xRange.max, y |-> 10])
             /\ yRange = [min |-> -50, max |-> -10] =>
                   AddedOneLine([x |-> xRange.min, y |-> -50], [x |-> xRange.max, y |-> -50])
       /\ call'.op = "drawYAxis" =>
             /\ AddedOneLine([x |-> AxisX, y |-> yRange.min], [x |-> AxisX, y |-> yRange.max])
             /\ xRange = [min |-> -50, max |-> 50] =>
                   AddedOneLine([x |-> 0, y |-> yRange.min], [x |-> 0, y |-> yRange.max])
             /\ xRange = [min |-> 10, max |-> 50] =>
                   AddedOneLine([x |-> 10, y |-> yRange.min], [x |-> 10, y |-> yRange.max])
             /\ xRange = [min |-> -50, max |-> -10] =>
                   AddedOneLine([x |-> -50, y |-> yRange.min], [x |-> -50, y |-> yRange.max])]_vars

\* an x axis drawn at y = yRange.min = -50, where on a 160 pixel high chart
\* that is the pixel row 130, because yRange lies below 0
C6_Witness ==
    /\ call.op = "drawXAxis"
    /\ yRange = [min |-> -50, max |-> -10]
    /\ H = 160
    /\ background # <<>>
    /\ background[Len(background)].start.y = <<130, 1>>

----------------------------------------------------------------------------
\* C7: drawGrid(xStep, yStep) adds to the background one line from
\* (x, yRange.min) to (x, yRange.max) for each x = xRange.min + k * xStep
\* (k = 0, 1, ...) with x <= xRange.max, in this order, and then one line from
\* (xRange.min, y) to (xRange.max, y) for each y = yRange.min + k * yStep with
\* y <= yRange.max, and nothing else.  drawGrid(50, .) over xRange = [0, 100]
\* draws the three vertical lines x = 0, 50, 100.
C7_GridLines ==
    [][call'.op = "drawGrid" =>
          LET xs == Ticks(xRange.min, xRange.max, call'.args[1])
              ys == Ticks(yRange.min, yRange.max, call'.args[2])
              new == Added(background, background')
          IN  /\ IsPrefix(background, background')
              /\ Len(new) = Len(xs) + Len(ys)
              /\ \A k \in 1..Len(xs) :
                    /\ new[k].kind = "line"
                    /\ new[k].start = transformPoint(transform, [x |-> xs[k], y |-> yRange.min])
                    /\ new[k].end = transformPoint(transform, [x |-> xs[k], y |-> yRange.max])
              /\ \A k \in 1..Len(ys) :
                    /\ new[Len(xs) + k].kind = "line"
                    /\ new[Len(xs) + k].start
                          = transformPoint(transform, [x |-> xRange.min, y |-> ys[k]])
                    /\ new[Len(xs) + k].end
                          = transformPoint(transform, [x |-> xRange.max, y |-> ys[k]])
              /\ (xRange = [min |-> 0, max |-> 100] /\ call'.args[1] = 50) =>
                    /\ Len(new) >= 3
                    /\ \A k \in 1..3 :
                          new[k].start
                             = transformPoint(transform, [x |-> 50 * (k - 1), y |-> yRange.min])
                    /\ Len(new) > 3 => new[4].start.x = new[1].start.x]_vars

\* drawGrid(50, 50) as the first call on the 100 x 160 chart, xRange = [0, 100]:
\* the vertical lines at the pixels x = 30, 50 and 70, then four horizontal ones
C7_Witness ==
    /\ call.op = "drawGrid"
    /\ call.args[1] = 50 /\ call.args[2] = 50
    /\ xRange = [min |-> 0, max |-> 100]
    /\ Len(background) = 7
    /\ background[1].start.x = <<30, 1>>
    /\ background[2].start.x = <<50, 1>>
    /\ background[3].start.x = <<70, 1>>
    /\ background[3].start.y # background[3].end.y

----------------------------------------------------------------------------
\* C8: on the constructed chart the transform is the matrix of the size and
\* the current xRange and yRange alone, whatever ranges were set before
\* (ranges with max = min among them); and a range set that repeats the call
\* before it leaves the transform as it was.
C8_TransformOfCurrentRanges ==
    /\ [](pc = "ready" => transform = TransformOf(size, xRange, yRange))
    /\ [][(/\ call'.op \in {"xRange", "yRange"}
           /\ call'.op = call.op
           /\ call'.args = call.args) => transform' = transform]_vars

\* an x range set as the third call, the chart having max # min on both axes
C8_Witness ==
    /\ call.op = "xRange"
    /\ nops = 3
    /\ NonDegenerate
    /\ FiniteMatrix(transform)
    /\ xRange # [min |-> 0, max |-> W]

----------------------------------------------------------------------------
\* C9 as stated: every operation a caller invokes returns the chart itself.
C9_EveryOperationReturnsThis ==
    (pc = "ready" /\ nops > 0) => call.ret = "this"

\* C9 as amended: plot, drawGrid, drawXAxis, drawYAxis, drawXLabels and
\* drawYLabels return the chart itself; xRange and yRange are property
\* setters and return nothing.
C9_DrawMethodsReturnThis ==
    /\ call.op \in DrawOps => call.ret = "this"
    /\ call.op \in {"xRange", "yRange"} => call.ret = "undefined"

\* a draw method that has returned as the third call of a chain
C9_Witness ==
    /\ call.op = "drawYLabels"
    /\ call.ret = "this"
    /\ nops = 3

----------------------------------------------------------------------------
\* C10: when the constructor has returned and no call has been made, xRange is
\* [0, W], yRange is [0, H] and the transform is the finite matrix of these
\* ranges; between the constructor's two assignments the transform is not
\* finite, and nothing has been drawn by then; and the transform of a
\* constructed chart is not finite only while xRange or yRange has max = min,
\* which only a caller's set can bring about.
C10_Construction ==
    /\ (pc = "ready" /\ nops = 0) =>
          /\ xRange = [min |-> 0, max |-> W]
          /\ yRange = [min |-> 0, max |-> H]
          /\ transform = [a |-> Norm(W - 60, W), b |-> <<0, 1>>, c |-> <<0, 1>>,
                          d |-> Norm(60 - H, H), e |-> <<30, 1>>, f |-> <<H - 30, 1>>]
    /\ pc = "ctor_yRange" => ~FiniteMatrix(transform)
    /\ pc # "ready" => (nops = 0 /\ background = <<>> /\ foreground = <<>>)
    /\ (pc = "ready" /\ ~FiniteMatrix(transform)) => (~NonDegenerate /\ nops > 0)
    /\ (pc = "ready" /\ NonDegenerate) => FiniteMatrix(transform)

\* the chart as the constructor leaves it
C10_Witness ==
    /\ pc = "ready"
    /\ nops = 0
    /\ FiniteMatrix(transform)
    /\ W = 100 /\ H = 160

====
